---------------------------- MODULE Spec2Model ----------------------------
(***************************************************************************)
(* Model of the RAG service of ei16-ua/domotica                            *)
(* (src/modulo_rag/backend/rag_service.py and main.py).                    *)
(*                                                                         *)
(* The process holds one RAGService (the module-level rag_service).  Its   *)
(* shared state is self.vector_store, the Chroma collection behind it and  *)
(* the module-level _ocr_reader.  FastAPI runs the synchronous endpoints   *)
(* (chat, index_files, get_stats) on a thread pool, so several requests    *)
(* are in flight at once; index_documents is modelled step by step at the  *)
(* points where it touches shared state.                                   *)
(*                                                                         *)
(* Text is kept as a sequence of runs [ch, n] (n copies of character ch);  *)
(* subject ids and questions as sequences of one-character strings.        *)
(***************************************************************************)
EXTENDS Integers, Sequences, FiniteSets, TLC

\* ------------------------------------------------------------------ bounds

\* Endpoint calls started in one behaviour.
MaxRequests == 2

\* How many times the process is stopped and started again.
MaxRestarts == 1

\* ----------------------------------------------------- program constants

\* search_kwargs = {"k": 8}
K == 8
\* if text_length < 100
OCR_THRESHOLD == 100
\* RecursiveCharacterTextSplitter(chunk_size=2000, chunk_overlap=400)
chunk_size == 2000
chunk_overlap == 400

\* The worker threads of the server's thread pool.
Threads == {1, 2}

\* ------------------------------------------------------------------- text

WhiteSpace == {" ", "\n", "\t"}

X(n) == <<[ch |-> "x", n |-> n]>>
WS(n) == <<[ch |-> " ", n |-> n]>>

RECURSIVE TextLen(_)
\* len(text)
TextLen(text) ==
    IF text = <<>> THEN 0 ELSE Head(text).n + TextLen(Tail(text))

RECURSIVE lstrip(_)
lstrip(s) ==
    IF s = <<>> THEN <<>>
    ELSE IF Head(s).ch \in WhiteSpace THEN lstrip(Tail(s)) ELSE s

RECURSIVE rstrip(_)
rstrip(s) ==
    IF s = <<>> THEN <<>>
    ELSE IF s[Len(s)].ch \in WhiteSpace THEN rstrip(SubSeq(s, 1, Len(s) - 1))
         ELSE s

\* str.strip() on a text of runs
strip_text(text) == rstrip(lstrip(text))

RECURSIVE lstrip_str(_)
lstrip_str(s) ==
    IF s = <<>> THEN <<>>
    ELSE IF Head(s) \in WhiteSpace THEN lstrip_str(Tail(s)) ELSE s

RECURSIVE rstrip_str(_)
rstrip_str(s) ==
    IF s = <<>> THEN <<>>
    ELSE IF s[Len(s)] \in WhiteSpace THEN rstrip_str(SubSeq(s, 1, Len(s) - 1))
         ELSE s

\* str.strip() on a string of characters
strip(s) == rstrip_str(lstrip_str(s))

RECURSIVE Concat(_)
\* "".join(texts)
Concat(texts) ==
    IF texts = <<>> THEN <<>> ELSE Head(texts) \o Concat(Tail(texts))

RECURSIVE JoinPages(_)
\* "\n\n".join(all_text)
JoinPages(texts) ==
    IF texts = <<>> THEN <<>>
    ELSE IF Len(texts) = 1 THEN Head(texts)
    ELSE Head(texts) \o <<[ch |-> "\n", n |-> 2]>> \o JoinPages(Tail(texts))

\* ------------------------------------------------------------ environment

\* The files the material backend can name.  native: the text layer, one
\* entry per page (one entry for a text file); scanned: what the OCR engine
\* reads on each page of a PDF.
FileSystem ==
    "notes.txt" :> [exists |-> TRUE, ext |-> ".txt",
                    native |-> <<X(3000) \o WS(1)>>, scanned |-> <<>>]
 @@ "book.pdf"  :> [exists |-> TRUE, ext |-> ".pdf",
                    native |-> <<X(98) \o WS(1), X(1) \o WS(2)>>,
                    scanned |-> <<>>]
 @@ "scan.pdf"  :> [exists |-> TRUE, ext |-> ".pdf",
                    native |-> <<WS(2), WS(1) \o X(99) \o WS(4)>>,
                    scanned |-> <<X(700), X(900)>>]
 @@ "blob.bin"  :> [exists |-> TRUE, ext |-> ".bin",
                    native |-> <<>>, scanned |-> <<>>]
 @@ "manual.txt" :> [exists |-> TRUE, ext |-> ".txt",
                    native |-> <<X(16000)>>, scanned |-> <<>>]
 @@ "gone.txt"  :> [exists |-> FALSE, ext |-> ".txt",
                    native |-> <<>>, scanned |-> <<>>]

Files == DOMAIN FileSystem

\* The file lists an index request carries.
Batches ==
    { <<"notes.txt">>, <<"scan.pdf">>, <<"gone.txt">>,
      <<"gone.txt", "notes.txt">>, <<"book.pdf", "blob.bin">> }

\* The path lists the material backend answers with.
MaterialPaths == { <<>>, <<"notes.txt">>, <<"gone.txt">> }

\* A file TextLoader cannot decode as UTF-8.
Undecodable == { "blob.bin" }

\* How close a file's chunks are to the question (smaller is closer): the
\* embedding distance similarity_search ranks by.
Distance ==
    "notes.txt" :> 2 @@ "book.pdf" :> 3 @@ "scan.pdf" :> 1
 @@ "blob.bin" :> 4 @@ "gone.txt" :> 4 @@ "manual.txt" :> 3

\* The subject ids an index request carries.
IndexSubjects == { <<"A">>, <<"B">> }

\* The subject ids a request to /api/index carries (stripped by the handler).
RawIndexSubjects == { <<"A">>, <<"B">>, <<"A", " ">> }

\* The subject ids a chat request carries.  An Optional[str] is a set here:
\* {} for None, {s} for the string s.
QuerySubjects == { <<>>, <<" ">>, <<"A">>, <<" ", "B">> }

\* The questions a chat request carries.
Questions == { <<" ">>, <<"q", " ">> }

None == "None"

\* What persist_directory holds when the process starts with an index on
\* disk: notes.txt indexed for subject B by an earlier process.
PersistedIndex ==
    { [id |-> i, subject_id |-> <<"B">>, source_file |-> "notes.txt",
       source |-> "notes.txt", page |-> -1, ocr |-> FALSE, part |-> i]
      : i \in 1..2 }

\* -------------------------------------------------------------------- state

VARIABLES
    vector_store,   \* self.vector_store: None or "Chroma"
    collection,     \* the chunks held by the Chroma collection (persisted)
    next_id,        \* next id the collection hands out
    ocr_reader,     \* _ocr_reader: 0 for None, else the instance number
    reader_inits,   \* how many times easyocr.Reader(...) was constructed
    nreq,           \* endpoint calls started so far
    pc,             \* per thread: where its request stands
    call,           \* per thread: the arguments of its call
    idx,            \* per thread: position of the for loop over file_paths
    all_documents,  \* per thread: local all_documents
    errors,         \* per thread: local errors
    chunks,         \* per thread: local chunks (after split_documents)
    reader,         \* per thread: the reader get_ocr_reader() returned
    delete_raised,  \* per thread: its delete raised and "except: pass" ran
    last_index,     \* the last index request that ended: arguments, what
                    \* it loaded and stored, reply
    last_query,     \* the last chat call: arguments, retrieved docs, reply
    last_stats,     \* the last get_stats reply
    last_ok,        \* per subject: the chunks of the most recent index call
                    \* for it that returned status "ok"
    chroma_dir,     \* CHROMA_DIR exists and holds files
    restarts,       \* how many times the process was started again
    \* the chatbot backend and its SQLite database
    foreign_keys,   \* SQLite enforces foreign keys on the connections
    conversations,  \* table conversations: the ids of its rows
    messages,       \* table messages: id, conversation_id, role
    users,          \* table users: id, username
    sqlite_sequence,\* per table: the largest AUTOINCREMENT id given out
    turn,           \* per chat task: where the handler stands
    signup,         \* per thread: where create_user stands
    last_deleted,   \* the last delete_conversation request and its reply
    last_register   \* the last register request that ended and its reply

vars == << vector_store, collection, next_id, ocr_reader, reader_inits, nreq,
           pc, call, idx, all_documents, errors, chunks, reader,
           delete_raised, last_index, last_query, last_stats, last_ok,
           chroma_dir, restarts, foreign_keys, conversations, messages,
           users, sqlite_sequence, turn, signup, last_deleted, last_register >>

chatbot == << foreign_keys, conversations, messages, users, sqlite_sequence,
             turn, signup, last_deleted, last_register >>

shared == << vector_store, collection, next_id >>
ocr_state == << ocr_reader, reader_inits >>
locals == << call, idx, all_documents, errors, chunks, reader, delete_raised >>
observed == << last_index, last_query, last_stats >>

\* --------------------------------------------------------------- helpers

Range(s) == { s[i] : i \in DOMAIN s }

\* The chunks of a collection tagged with a subject.
Partition(coll, subject_id) == { c \in coll : c.subject_id = subject_id }

\* ------------------------------------------------------------- extraction

\* The Documents PyPDFLoader / TextLoader return for a file: one per page of
\* a PDF, one for any other file.
NativeDocs(file_path) ==
    LET f == FileSystem[file_path] IN
    [ i \in 1..Len(f.native) |->
        [page_content |-> f.native[i], source |-> file_path,
         page |-> IF f.ext = ".pdf" THEN i - 1 ELSE -1, ocr |-> FALSE] ]

\* load_document raises: the path does not exist, or the loader cannot read it.
LoadRaises(file_path) ==
    \/ ~FileSystem[file_path].exists
    \/ file_path \in Undecodable

\* The exception text load_document raises with.
LoadError(file_path) ==
    IF ~FileSystem[file_path].exists THEN "FileNotFoundError" ELSE "RuntimeError"

\* text_length = len(total_text.strip())
text_length(file_path) ==
    TextLen(strip_text(Concat(FileSystem[file_path].native)))

\* NeedsOcr with "<=" for "<": a PDF of exactly 100 characters goes to OCR.
NeedsOcrInclusive(file_path) ==
    /\ ~LoadRaises(file_path)
    /\ FileSystem[file_path].ext = ".pdf"
    /\ text_length(file_path) <= OCR_THRESHOLD

\* load_document takes the OCR path for this file.
NeedsOcr(file_path) ==
    /\ ~LoadRaises(file_path)
    /\ FileSystem[file_path].ext = ".pdf"
    /\ text_length(file_path) < OCR_THRESHOLD

\* extract_text_with_ocr: the recognized pages joined, or "" when any page
\* raised (failed_page > 0): the try block spans the whole loop.
extract_text_with_ocr(file_path, failed_page) ==
    IF failed_page = 0 THEN JoinPages(FileSystem[file_path].scanned) ELSE <<>>

\* What load_document returns once the OCR text is known.
OcrDocs(file_path, ocr_text) ==
    IF ocr_text # <<>>
    THEN << [page_content |-> ocr_text, source |-> file_path,
             page |-> -1, ocr |-> TRUE] >>
    ELSE NativeDocs(file_path)

\* Tag that leaves subject_id out: every document gets the same subject and
\* the same source_file, whatever the request.
TagConstant(docs, subject_id, file_path) ==
    [ i \in 1..Len(docs) |->
        [page_content |-> docs[i].page_content, source |-> docs[i].source,
         page |-> docs[i].page, ocr |-> docs[i].ocr,
         subject_id |-> <<"A">>, source_file |-> "notes.txt"] ]

\* doc.metadata["subject_id"] = subject_id; doc.metadata["source_file"] = file_path
Tag(docs, subject_id, file_path) ==
    [ i \in 1..Len(docs) |->
        [page_content |-> docs[i].page_content, source |-> docs[i].source,
         page |-> docs[i].page, ocr |-> docs[i].ocr,
         subject_id |-> subject_id, source_file |-> file_path] ]

\* --------------------------------------------------------------- chunking

\* How many chunks the splitter cuts a text into: none for a blank text, one
\* up to chunk_size, then one more per (chunk_size - chunk_overlap) characters.
SplitCount(text) ==
    LET n == TextLen(strip_text(text))
        step == chunk_size - chunk_overlap
    IN  IF n = 0 THEN 0
        ELSE IF n <= chunk_size THEN 1
        ELSE 1 + ((n - chunk_size) + step - 1) \div step

\* The chunks of one document: each carries the document's metadata.
SplitOne(doc) ==
    [ j \in 1..SplitCount(doc.page_content) |->
        [subject_id |-> doc.subject_id, source_file |-> doc.source_file,
         source |-> doc.source, page |-> doc.page, ocr |-> doc.ocr,
         part |-> j] ]

RECURSIVE split_documents(_)
\* self.text_splitter.split_documents(all_documents)
split_documents(docs) ==
    IF docs = <<>> THEN <<>>
    ELSE SplitOne(Head(docs)) \o split_documents(Tail(docs))

\* The records the collection stores for a list of chunks: the i-th gets
\* the id first + i - 1.
Stored(chunk_list, first) ==
    { [id |-> first + i - 1, subject_id |-> chunk_list[i].subject_id,
       source_file |-> chunk_list[i].source_file,
       source |-> chunk_list[i].source, page |-> chunk_list[i].page,
       ocr |-> chunk_list[i].ocr, part |-> chunk_list[i].part]
      : i \in 1..Len(chunk_list) }

\* -------------------------------------------------------------------- Init

\* Every subject id that can tag a chunk.
Subjects == IndexSubjects \cup { strip(s) : s \in RawIndexSubjects }

NoCall == [fn |-> "none", file_paths |-> <<>>, subject_id |-> <<>>]

NoResult ==
    [status |-> "none", documents_processed |-> 0, chunks_created |-> 0,
     errors |-> <<>>, errors_none |-> TRUE, message |-> None]

NoIndex ==
    [file_paths |-> <<>>, subject_id |-> <<>>, called |-> FALSE,
     loaded |-> <<>>, delete_raised |-> FALSE, stored |-> {}, count |-> 0,
     result |-> NoResult]

NoQuery ==
    [question |-> <<>>, subject_id |-> {}, passed |-> {}, filter |-> {},
     searched |-> "no",
     docs |-> <<>>, context |-> <<>>, llm_calls |-> 0, status |-> "none",
     answer |-> None,
     sources |-> <<>>, sources_none |-> TRUE, message |-> None]

\* The chat handlers the event loop of the chatbot runs at a time.
Tasks == {1, 2}

NoTurn == [pc |-> "idle", conversation_id |-> 0]

NoSignup == [pc |-> "idle", username |-> ""]

NoRegister == [username |-> "", status |-> "none", user_id |-> 0]

NoStats == [asked |-> FALSE, request |-> 0, indexed |-> FALSE, count |-> 0]

\* _load_existing_index with the test never true: no store is attached.
load_existing_index_never == None

\* _load_existing_index: the store in CHROMA_DIR is attached when the
\* directory exists and holds files; otherwise vector_store stays None.
load_existing_index == IF chroma_dir THEN "Chroma" ELSE None

\* What persist_directory holds when an earlier process indexed manual.txt
\* for subject B and then notes.txt for subject A.
LargePersistedIndex ==
    LET manual == split_documents(Tag(NativeDocs("manual.txt"), <<"B">>,
                                      "manual.txt"))
        notes == split_documents(Tag(NativeDocs("notes.txt"), <<"A">>,
                                     "notes.txt"))
    IN  Stored(manual, 1) \cup Stored(notes, Len(manual) + 1)

\* The chatbot's init_db: the tables are created empty.  Whether SQLite
\* enforces foreign keys is a property of the library build, as no
\* connection sets it.
init_db(builds) ==
    /\ foreign_keys \in builds
    /\ conversations = {}
    /\ messages = {}
    /\ users = {}
    /\ sqlite_sequence = [conversations |-> 0, messages |-> 0, users |-> 0]
    /\ turn = [k \in Tasks |-> NoTurn]
    /\ signup = [t \in Threads |-> NoSignup]
    /\ last_deleted = [conversation_id |-> 0, status |-> "none"]
    /\ last_register = NoRegister

\* RAGService.__init__ with _load_existing_index.  The store writes through
\* to CHROMA_DIR, so collection is what the directory holds.
RAGService_init(dirs, persisted) ==
    /\ chroma_dir \in dirs
    /\ restarts = 0
    /\ vector_store = load_existing_index
    /\ collection = IF chroma_dir THEN persisted ELSE {}
    /\ next_id = Cardinality(collection) + 1
    /\ ocr_reader = 0
    /\ reader_inits = 0
    /\ nreq = 0
    /\ pc = [t \in Threads |-> "idle"]
    /\ call = [t \in Threads |-> NoCall]
    /\ idx = [t \in Threads |-> 1]
    /\ all_documents = [t \in Threads |-> <<>>]
    /\ errors = [t \in Threads |-> <<>>]
    /\ chunks = [t \in Threads |-> <<>>]
    /\ reader = [t \in Threads |-> 0]
    /\ delete_raised = [t \in Threads |-> FALSE]
    /\ last_index = NoIndex
    /\ last_query = NoQuery
    /\ last_stats = NoStats
    /\ last_ok = [s \in Subjects |-> Partition(collection, s)]

\* The RAG service starts, with or without an index on disk.
Init == RAGService_init(BOOLEAN, PersistedIndex) /\ init_db({FALSE})

\* ----------------------------------------------------------- index request

\* Thread u runs the handler declared "async def": it runs on the event
\* loop, and index_documents, which never awaits, keeps the loop busy until
\* it returns.
OnEventLoop(u) == pc[u] # "idle" /\ call[u].fn = "index_subject"

\* A thread is free to take the next request: the event loop is there to
\* accept it, and it hands the request to the first free worker.
Free(t) ==
    /\ pc[t] = "idle"
    /\ nreq < MaxRequests
    /\ \A u \in Threads : ~OnEventLoop(u)
    /\ \A u \in Threads : u < t => pc[u] # "idle"

\* The locals of a thread that runs no call.
Reset(t) ==
    /\ pc' = [pc EXCEPT ![t] = "idle"]
    /\ call' = [call EXCEPT ![t] = NoCall]
    /\ idx' = [idx EXCEPT ![t] = 1]
    /\ all_documents' = [all_documents EXCEPT ![t] = <<>>]
    /\ errors' = [errors EXCEPT ![t] = <<>>]
    /\ chunks' = [chunks EXCEPT ![t] = <<>>]
    /\ reader' = [reader EXCEPT ![t] = 0]
    /\ delete_raised' = [delete_raised EXCEPT ![t] = FALSE]

\* Entry of index_documents(file_paths, subject_id), called by a handler:
\* all_documents = [], errors = [], then the for loop.
index_documents(t, handler, file_paths, subject_id) ==
    /\ call' = [call EXCEPT ![t] = [fn |-> handler,
                                     file_paths |-> file_paths,
                                     subject_id |-> subject_id]]
    /\ idx' = [idx EXCEPT ![t] = 1]
    /\ all_documents' = [all_documents EXCEPT ![t] = <<>>]
    /\ errors' = [errors EXCEPT ![t] = <<>>]
    /\ chunks' = [chunks EXCEPT ![t] = <<>>]
    /\ reader' = [reader EXCEPT ![t] = 0]
    /\ delete_raised' = [delete_raised EXCEPT ![t] = FALSE]
    /\ pc' = [pc EXCEPT ![t] = IF file_paths = <<>> THEN "split" ELSE "load"]
    /\ UNCHANGED last_index

\* A handler that answers without calling index_documents.
Reply(t, file_paths, subject_id, status, message) ==
    /\ last_index' = [NoIndex EXCEPT
            !.file_paths = file_paths, !.subject_id = subject_id,
            !.result = [NoResult EXCEPT !.status = status,
                                        !.message = message]]
    /\ UNCHANGED << pc, locals >>

\* index_documents returns (or raises) in thread t, leaving the collection
\* with count entries.
Return(t, stored, count, res) ==
    /\ last_index' = [file_paths |-> call[t].file_paths,
                      subject_id |-> call[t].subject_id,
                      called |-> TRUE,
                      loaded |-> [i \in 1..Len(all_documents[t]) |->
                                    all_documents[t][i].source_file],
                      delete_raised |-> delete_raised[t],
                      stored |-> stored,
                      count |-> count,
                      result |-> res]
    /\ Reset(t)

\* POST /api/index/files: 400 for an empty list, else index_documents with
\* the subject id as given.
index_files(t) ==
    /\ Free(t)
    /\ nreq' = nreq + 1
    /\ \E file_paths \in Batches \cup {<<>>}, subject_id \in IndexSubjects :
         IF file_paths = <<>>
         THEN Reply(t, file_paths, subject_id, "http_400",
                    "Se requiere al menos un archivo")
         ELSE index_documents(t, "index_files", file_paths, subject_id)
    /\ UNCHANGED << shared, chroma_dir, restarts, chatbot, ocr_state, last_query, last_stats, last_ok >>

\* POST /api/index: the subject id is stripped, the paths come from the
\* material backend, which may be unreachable, answer with an error status,
\* or name no files.
index_subject(t) ==
    /\ Free(t)
    /\ nreq' = nreq + 1
    /\ \E raw \in RawIndexSubjects,
          backend \in {"unreachable", "not_found", "paths"},
          file_paths \in MaterialPaths :
         LET subject_id == strip(raw) IN
         IF backend = "unreachable"
         THEN Reply(t, <<>>, subject_id, "http_503",
                    "No se pudo conectar al backend de materiales")
         ELSE IF backend = "not_found"
         THEN Reply(t, <<>>, subject_id, "http_404",
                    "Error al obtener rutas del backend de materiales")
         ELSE IF file_paths = <<>>
         THEN Reply(t, <<>>, subject_id, "error",
                    "No hay materiales para la asignatura")
         ELSE index_documents(t, "index_subject", file_paths, subject_id)
    /\ UNCHANGED << shared, chroma_dir, restarts, chatbot, ocr_state, last_query, last_stats, last_ok >>

\* Where the for loop goes after the file at position i.
AfterFile(t, i) == IF i >= Len(call[t].file_paths) THEN "split" ELSE "load"

\* The loop body has finished file idx[t] with these documents.
Loaded(t, docs) ==
    LET file_path == call[t].file_paths[idx[t]] IN
    /\ all_documents' = [all_documents EXCEPT ![t] =
                            @ \o Tag(docs, call[t].subject_id, file_path)]
    /\ idx' = [idx EXCEPT ![t] = @ + 1]
    /\ pc' = [pc EXCEPT ![t] = AfterFile(t, idx[t])]

\* Failed with the loop left at the first exception: the rest of the batch
\* is not loaded.
FailedAborts(t, error) ==
    LET file_path == call[t].file_paths[idx[t]] IN
    /\ errors' = [errors EXCEPT ![t] =
                     Append(@, [file |-> file_path, error |-> error])]
    /\ idx' = [idx EXCEPT ![t] = Len(call[t].file_paths) + 1]
    /\ pc' = [pc EXCEPT ![t] = "split"]

\* The loop body has caught an exception for file idx[t].
Failed(t, error) ==
    LET file_path == call[t].file_paths[idx[t]] IN
    /\ errors' = [errors EXCEPT ![t] =
                     Append(@, [file |-> file_path, error |-> error])]
    /\ idx' = [idx EXCEPT ![t] = @ + 1]
    /\ pc' = [pc EXCEPT ![t] = AfterFile(t, idx[t])]

\* One pass of the for loop up to the point where load_document either
\* returns, raises, or calls extract_text_with_ocr.
load_document(t) ==
    /\ pc[t] = "load"
    /\ LET file_path == call[t].file_paths[idx[t]] IN
       IF LoadRaises(file_path)
       THEN Failed(t, LoadError(file_path)) /\ UNCHANGED all_documents
       ELSE IF NeedsOcr(file_path)
       THEN /\ pc' = [pc EXCEPT ![t] = "ocr_check"]
            /\ UNCHANGED << idx, all_documents, errors >>
       ELSE Loaded(t, NativeDocs(file_path)) /\ UNCHANGED errors
    /\ UNCHANGED << shared, chroma_dir, restarts, chatbot, ocr_state, observed, last_ok, nreq,
                    call, chunks, reader, delete_raised >>

\* get_ocr_reader, the test "if _ocr_reader is None".
get_ocr_reader(t) ==
    /\ pc[t] = "ocr_check"
    /\ IF ocr_reader = 0
       THEN /\ pc' = [pc EXCEPT ![t] = "ocr_init"]
            /\ UNCHANGED reader
       ELSE /\ pc' = [pc EXCEPT ![t] = "ocr_run"]
            /\ reader' = [reader EXCEPT ![t] = ocr_reader]
    /\ UNCHANGED << shared, chroma_dir, restarts, chatbot, ocr_state, observed, last_ok, nreq,
                    call, idx, all_documents, errors, chunks, delete_raised >>

\* get_ocr_reader, "_ocr_reader = easyocr.Reader(...)": the constructor
\* runs and the global is assigned, or the constructor raises, which
\* load_document passes on to the loop's except clause.
easyocr_Reader(t) ==
    /\ pc[t] = "ocr_init"
    /\ \E raises \in BOOLEAN :
         IF raises
         THEN /\ Failed(t, "OcrInitError")
              /\ UNCHANGED << ocr_state, reader, all_documents >>
         ELSE /\ reader_inits' = reader_inits + 1
              /\ ocr_reader' = reader_inits + 1
              /\ reader' = [reader EXCEPT ![t] = reader_inits + 1]
              /\ pc' = [pc EXCEPT ![t] = "ocr_run"]
              /\ UNCHANGED << idx, all_documents, errors >>
    /\ UNCHANGED << shared, chroma_dir, restarts, chatbot, observed, last_ok, nreq, call, chunks,
                    delete_raised >>

\* extract_text_with_ocr from "try:" on, and the rest of load_document.
ocr_run(t) ==
    /\ pc[t] = "ocr_run"
    /\ LET file_path == call[t].file_paths[idx[t]] IN
       \E failed_page \in 0..Len(FileSystem[file_path].scanned) :
         Loaded(t, OcrDocs(file_path,
                           extract_text_with_ocr(file_path, failed_page)))
    /\ UNCHANGED << shared, chroma_dir, restarts, chatbot, ocr_state, observed, last_ok, nreq,
                    call, errors, chunks, reader, delete_raised >>

\* The result dictionaries of index_documents.
ErrorResult(errs) ==
    [status |-> "error", documents_processed |-> 0, chunks_created |-> 0,
     errors |-> errs, errors_none |-> FALSE,
     message |-> "No se pudo cargar ningun documento"]

\* OkResult with documents_processed = len(file_paths).
OkResultCountsAll(file_paths, errs, chunk_list) ==
    [status |-> "ok", documents_processed |-> Len(file_paths),
     chunks_created |-> Len(chunk_list),
     errors |-> errs, errors_none |-> (errs = <<>>), message |-> None]

OkResult(file_paths, errs, chunk_list) ==
    [status |-> "ok", documents_processed |-> Len(file_paths) - Len(errs),
     chunks_created |-> Len(chunk_list),
     errors |-> errs, errors_none |-> (errs = <<>>), message |-> None]

\* An exception that leaves the handler: the server answers 500.
RaisedResult ==
    [NoResult EXCEPT !.status = "http_500", !.message = "Internal Server Error"]

\* index_documents answers status "error" at this point.
NothingLoaded(docs) == docs = <<>>

\* "if not all_documents: return {status: error ...}", else split_documents.
split(t) ==
    /\ pc[t] = "split"
    /\ IF NothingLoaded(all_documents[t])
       THEN Return(t, {}, Cardinality(collection), ErrorResult(errors[t]))
       ELSE /\ chunks' = [chunks EXCEPT ![t] = split_documents(all_documents[t])]
            /\ pc' = [pc EXCEPT ![t] = "delete"]
            /\ UNCHANGED << call, idx, all_documents, errors, reader,
                            delete_raised, last_index >>
    /\ UNCHANGED << shared, chroma_dir, restarts, chatbot, ocr_state, last_query, last_stats, last_ok, nreq >>

\* DeleteWhere without the where clause: the collection is emptied.
DeleteEverything(coll, subject_id) == {}

\* What the collection holds after delete(where={"subject_id": subject_id}).
DeleteWhere(coll, subject_id) == coll \ Partition(coll, subject_id)

\* "if self.vector_store is not None: try: delete(...) except: pass".
delete(t) ==
    /\ pc[t] = "delete"
    /\ IF vector_store # None
       THEN \E raises \in BOOLEAN :
              /\ collection' = IF raises THEN collection
                               ELSE DeleteWhere(collection, call[t].subject_id)
              /\ delete_raised' = [delete_raised EXCEPT ![t] = raises]
       ELSE UNCHANGED << collection, delete_raised >>
    /\ pc' = [pc EXCEPT ![t] = "insert"]
    /\ UNCHANGED << vector_store, next_id, chroma_dir, restarts, chatbot,
                    ocr_state,
                    observed, last_ok, nreq,
                    call, idx, all_documents, errors, chunks, reader >>

\* Chroma.from_documents when vector_store is None, else add_documents; then
\* the "ok" result.  Embedding the chunks may raise: nothing is stored and
\* the exception leaves index_documents; from_documents may by then have
\* created the files of an empty store in CHROMA_DIR.
insert(t) ==
    /\ pc[t] = "insert"
    /\ \E raises \in BOOLEAN :
         IF raises
         THEN /\ Return(t, {}, Cardinality(collection), RaisedResult)
              /\ chroma_dir' \in {chroma_dir, TRUE}
              /\ UNCHANGED << shared, last_ok >>
         ELSE LET new == Stored(chunks[t], next_id) IN
              /\ collection' = collection \cup new
              /\ vector_store' = "Chroma"
              /\ chroma_dir' = TRUE
              /\ next_id' = next_id + Len(chunks[t])
              /\ Return(t, new, Cardinality(collection \cup new),
                        OkResult(call[t].file_paths, errors[t], chunks[t]))
              /\ last_ok' = [last_ok EXCEPT ![call[t].subject_id] = new]
    /\ UNCHANGED << ocr_state, last_query, last_stats, nreq, restarts, chatbot >>

\* -------------------------------------------------------------- retrieval

\* c is ranked before d: closer to the question, ties in insertion order.
RankedBefore(c, d) ==
    \/ Distance[c.source_file] < Distance[d.source_file]
    \/ Distance[c.source_file] = Distance[d.source_file] /\ c.id < d.id

RECURSIVE Ranked(_)
\* The chunks of a set in ranked order.
Ranked(cs) ==
    IF cs = {} THEN <<>>
    ELSE LET best == CHOOSE c \in cs :
                        \A d \in cs \ {c} : RankedBefore(c, d)
         IN  <<best>> \o Ranked(cs \ {best})

\* The entries of a collection a "filter" argument lets through.
Candidates(coll, filter) ==
    IF filter = {} THEN coll
    ELSE { c \in coll : c.subject_id \in filter }

\* self.vector_store.similarity_search(question, k=..., filter=...)
similarity_search(coll, filter, k) ==
    LET ranked == Ranked(Candidates(coll, filter))
    IN  SubSeq(ranked, 1, IF Len(ranked) < k THEN Len(ranked) ELSE k)

\* Python truth of an Optional[str]: neither None nor "".
Truthy(opt) == opt # {} /\ opt # {<<>>}

\* SearchFilter with the filter never set: every query searches the whole
\* collection.
SearchFilterNever(subject_id) == {}

\* search_kwargs["filter"], set only "if subject_id:".
SearchFilter(subject_id) == IF Truthy(subject_id) THEN subject_id ELSE {}

\* Sources without the seen_files test: one entry per retrieved chunk.
SourcesPerChunk(docs, seen_files) ==
    [ i \in 1..Len(docs) |->
        [file |-> docs[i].source_file, subject |-> docs[i].subject_id] ]

RECURSIVE Sources(_, _)
\* The loop over docs that fills sources, seen_files being the files of the
\* entries made so far.
Sources(docs, seen_files) ==
    IF docs = <<>> THEN <<>>
    ELSE LET file == Head(docs).source_file IN
         IF file \in seen_files THEN Sources(Tail(docs), seen_files)
         ELSE <<[file |-> file, subject |-> Head(docs).subject_id]>>
              \o Sources(Tail(docs), seen_files \cup {file})

\* IndexMissing with the test left out.
IndexMissingNever == FALSE

\* "if self.vector_store is None" in query and in get_stats.
IndexMissing == vector_store = None

\* The reply of query when no index exists.
NotIndexed(asked) ==
    [asked EXCEPT !.status = "error",
                  !.message = "No hay documentos indexados. Usa /api/index primero."]

\* NothingFound without the early return: the LLM is asked with an empty
\* context.
NothingFoundAsksLlm(asked) ==
    [asked EXCEPT !.llm_calls = 1, !.status = "ok",
                  !.answer = "response.content",
                  !.sources = <<>>, !.sources_none = FALSE]

\* The reply of query "if not docs": no call of the LLM.
NothingFound(asked) ==
    [asked EXCEPT !.status = "ok",
                  !.answer = "No encontre informacion relevante en el material disponible.",
                  !.sources = <<>>, !.sources_none = FALSE]

\* context_parts with enumerate(docs): the labels start at 0.
context_parts_from_zero(docs) ==
    [ i \in 1..Len(docs) |-> [label |-> i - 1, passage |-> docs[i]] ]

\* context_parts: "[Fragmento {i}]\n{doc.page_content}" for
\* i, doc in enumerate(docs, 1); context joins them in this order.
context_parts(docs) ==
    [ i \in 1..Len(docs) |-> [label |-> i, passage |-> docs[i]] ]

\* The reply of query after self.llm.invoke(prompt), which may raise.
Answered(asked, docs, llm_raises) ==
    IF llm_raises
    THEN [asked EXCEPT !.docs = docs, !.context = context_parts(docs),
                       !.llm_calls = 1, !.status = "http_500"]
    ELSE [asked EXCEPT !.docs = docs, !.context = context_parts(docs),
                       !.llm_calls = 1, !.status = "ok",
                       !.answer = "response.content",
                       !.sources = Sources(docs, {}),
                       !.sources_none = FALSE]

\* RAGService.query: the record of one call, given whether the search and
\* the LLM raise.
query(question, subject_id, search_raises, llm_raises) ==
    LET asked == [NoQuery EXCEPT !.question = question,
                                 !.subject_id = subject_id,
                                 !.passed = {question}]
        filter == SearchFilter(subject_id)
        docs == similarity_search(collection, filter, K)
    IN  IF IndexMissing THEN NotIndexed(asked)
        ELSE IF search_raises
        THEN [asked EXCEPT !.filter = filter, !.searched = "raised",
                           !.status = "http_500"]
        ELSE LET found == [asked EXCEPT !.filter = filter,
                                        !.searched = "returned"]
             IN  IF docs = <<>> THEN NothingFound(found)
                 ELSE Answered(found, docs, llm_raises)

\* The subject_id chat hands to query:
\* request.subject_id.strip() if request.subject_id else None
QuerySubject(subject_id) ==
    IF Truthy(subject_id) THEN { strip(s) : s \in subject_id } ELSE {}

\* EmptyQuestion with the test left out: every question goes to query.
EmptyQuestionNever(question) == FALSE

\* "if not request.question.strip()"
EmptyQuestion(question) == strip(question) = <<>>

\* POST /api/chat: 400 for a blank question, else query with the question
\* and the subject id stripped.
chat(t) ==
    /\ Free(t)
    /\ nreq' = nreq + 1
    /\ \E question \in Questions,
          subject_id \in {{}} \cup { {s} : s \in QuerySubjects },
          search_raises \in BOOLEAN, llm_raises \in BOOLEAN :
         last_query' =
            IF EmptyQuestion(question)
            THEN [NoQuery EXCEPT !.question = question,
                                 !.subject_id = subject_id,
                                 !.status = "http_400"]
            ELSE [query(strip(question), QuerySubject(subject_id),
                        search_raises, llm_raises)
                    EXCEPT !.question = question, !.subject_id = subject_id]
    /\ UNCHANGED << shared, chroma_dir, restarts, chatbot, ocr_state, last_index, last_stats, last_ok,
                    pc, locals >>

\* collection_count restricted to the subject indexed last.
collection_count_last_subject(coll) ==
    Cardinality(Partition(coll, last_index.subject_id))

\* collection.count()
collection_count(coll) == Cardinality(coll)

\* RAGService.get_stats
RAGService_get_stats ==
    IF IndexMissing
    THEN [indexed |-> FALSE, count |-> 0]
    ELSE [indexed |-> TRUE, count |-> collection_count(collection)]

\* get_stats that opens the store when none is attached, creating an empty
\* collection in CHROMA_DIR.
get_stats_creating(t) ==
    /\ Free(t)
    /\ nreq' = nreq + 1
    /\ last_stats' = [asked |-> TRUE, request |-> nreq + 1,
                      indexed |-> TRUE, count |-> collection_count(collection)]
    /\ vector_store' = "Chroma"
    /\ chroma_dir' = TRUE
    /\ UNCHANGED << collection, next_id, restarts, chatbot, ocr_state,
                    last_index, last_query, last_ok, pc, locals >>

\* GET /api/stats; request is the number of the request among those the
\* server has taken.
get_stats(t) ==
    /\ Free(t)
    /\ nreq' = nreq + 1
    /\ last_stats' = [asked |-> TRUE, request |-> nreq + 1,
                      indexed |-> RAGService_get_stats.indexed,
                      count |-> RAGService_get_stats.count]
    /\ UNCHANGED << shared, chroma_dir, restarts, chatbot, ocr_state, last_index, last_query, last_ok,
                    pc, locals >>

\* The process is stopped, at any moment, and started again: the module
\* globals and the calls under way are gone, RAGService() is constructed
\* anew and attaches what CHROMA_DIR holds.
restart ==
    /\ restarts < MaxRestarts
    /\ restarts' = restarts + 1
    /\ vector_store' = load_existing_index
    /\ ocr_reader' = 0
    /\ reader_inits' = 0
    /\ pc' = [t \in Threads |-> "idle"]
    /\ call' = [t \in Threads |-> NoCall]
    /\ idx' = [t \in Threads |-> 1]
    /\ all_documents' = [t \in Threads |-> <<>>]
    /\ errors' = [t \in Threads |-> <<>>]
    /\ chunks' = [t \in Threads |-> <<>>]
    /\ reader' = [t \in Threads |-> 0]
    /\ delete_raised' = [t \in Threads |-> FALSE]
    /\ UNCHANGED << collection, next_id, chroma_dir, nreq, observed, last_ok,
                    chatbot >>

\* ---------------------------------------------------------------- chatbot

\* The state of the RAG service, which the chatbot's handlers leave alone.
rag == << shared, chroma_dir, restarts, ocr_state, pc, locals, observed,
         last_ok >>

\* The conversation ids a request can name.
ConversationIds == {1, 2}

\* The usernames a registration can ask for.
Usernames == {"ana", "bob"}

\* The event loop can start the chat handler as task k: no chat handler is
\* in the stretch it runs without awaiting.
FreeTask(k) ==
    /\ nreq < MaxRequests
    /\ turn[k].pc = "idle"
    /\ \A j \in Tasks : turn[j].pc # "save"
    /\ \A j \in Tasks : j < k => turn[j].pc # "idle"

\* db.create_conversation: INSERT INTO conversations, returns lastrowid.
db_create_conversation ==
    /\ conversations' = conversations \cup {sqlite_sequence.conversations + 1}
    /\ sqlite_sequence' = [sqlite_sequence EXCEPT !.conversations = @ + 1]

\* The INSERT of db.add_message violates the foreign key of messages.
add_message_raises(conversation_id) ==
    foreign_keys /\ conversation_id \notin conversations

\* db.add_message: INSERT INTO messages (the UPDATE of the conversation's
\* timestamp changes no id).
add_message(conversation_id, role) ==
    /\ messages' = messages \cup
          { [id |-> sqlite_sequence.messages + 1,
             conversation_id |-> conversation_id, role |-> role] }
    /\ sqlite_sequence' = [sqlite_sequence EXCEPT !.messages = @ + 1]

\* db.delete_conversation: DELETE FROM conversations WHERE id = ?; the
\* messages go with it (ON DELETE CASCADE) only if foreign keys are enforced.
db_delete_conversation(conversation_id) ==
    /\ conversations' = conversations \ {conversation_id}
    /\ messages' = IF foreign_keys
                   THEN { m \in messages : m.conversation_id # conversation_id }
                   ELSE messages

\* POST /api/chat of the chatbot, up to "Save user message": a new
\* conversation is created, or the one named is looked up and the request
\* ends with 404 if it does not exist.
chatbot_chat(k) ==
    /\ FreeTask(k)
    /\ nreq' = nreq + 1
    /\ \E conversation_id \in {0} \cup ConversationIds :
         IF conversation_id = 0
         THEN /\ db_create_conversation
              /\ turn' = [turn EXCEPT ![k] =
                    [pc |-> "save",
                     conversation_id |-> sqlite_sequence.conversations + 1]]
         ELSE IF conversation_id \notin conversations
         THEN UNCHANGED << conversations, sqlite_sequence, turn >>
         ELSE /\ turn' = [turn EXCEPT ![k] =
                    [pc |-> "save", conversation_id |-> conversation_id]]
              /\ UNCHANGED << conversations, sqlite_sequence >>
    /\ UNCHANGED << rag, foreign_keys, messages, users, signup, last_deleted,
                    last_register >>

\* chat: db.add_message(conversation_id, "user", ...), then the handler
\* awaits the answer.
chat_save_user_message(k) ==
    /\ turn[k].pc = "save"
    /\ IF add_message_raises(turn[k].conversation_id)
       THEN /\ turn' = [turn EXCEPT ![k] = NoTurn]
            /\ UNCHANGED << messages, sqlite_sequence >>
       ELSE /\ add_message(turn[k].conversation_id, "user")
            /\ turn' = [turn EXCEPT ![k].pc = "answering"]
    /\ UNCHANGED << rag, nreq, foreign_keys, conversations, users, signup,
                    last_deleted, last_register >>

\* chat: the awaited answer arrives, or the call raises;
\* db.add_message(conversation_id, "assistant", ...).
chat_reply(k) ==
    /\ turn[k].pc = "answering"
    /\ \E raises \in BOOLEAN :
         IF raises \/ add_message_raises(turn[k].conversation_id)
         THEN UNCHANGED << messages, sqlite_sequence >>
         ELSE add_message(turn[k].conversation_id, "assistant")
    /\ turn' = [turn EXCEPT ![k] = NoTurn]
    /\ UNCHANGED << rag, nreq, foreign_keys, conversations, users, signup,
                    last_deleted, last_register >>

\* POST /api/conversations
create_conversation ==
    /\ nreq < MaxRequests
    /\ nreq' = nreq + 1
    /\ db_create_conversation
    /\ UNCHANGED << rag, foreign_keys, messages, users, turn, signup,
                    last_deleted, last_register >>

\* DELETE /api/conversations/{conversation_id}: 404 if it does not exist,
\* else db.delete_conversation.
delete_conversation ==
    /\ nreq < MaxRequests
    /\ nreq' = nreq + 1
    /\ \E conversation_id \in ConversationIds :
         IF conversation_id \notin conversations
         THEN /\ last_deleted' = [conversation_id |-> conversation_id,
                                  status |-> "http_404"]
              /\ UNCHANGED << conversations, messages >>
         ELSE /\ db_delete_conversation(conversation_id)
              /\ last_deleted' = [conversation_id |-> conversation_id,
                                  status |-> "ok"]
    /\ UNCHANGED << rag, foreign_keys, users, sqlite_sequence, turn, signup,
                    last_register >>

\* A users row with this username exists.
username_exists(username) == \E u \in users : u.username = username

\* POST /api/auth/register, create_user up to its SELECT: the username is
\* found and create_user returns None (400), or it goes on to hash the
\* password.
register(t) ==
    /\ nreq < MaxRequests
    /\ signup[t].pc = "idle"
    /\ \A u \in Threads : u < t => signup[u].pc # "idle"
    /\ nreq' = nreq + 1
    /\ \E username \in Usernames :
         IF username_exists(username)
         THEN /\ last_register' = [username |-> username,
                                   status |-> "http_400", user_id |-> 0]
              /\ UNCHANGED signup
         ELSE /\ signup' = [signup EXCEPT ![t] =
                    [pc |-> "insert", username |-> username]]
              /\ UNCHANGED last_register
    /\ UNCHANGED << rag, foreign_keys, conversations, messages, users,
                    sqlite_sequence, turn, last_deleted >>

\* create_user from its INSERT on, and the rest of register: the UNIQUE
\* constraint on username makes the INSERT raise IntegrityError, which
\* nothing catches, when a row with the username exists by then.
create_user(t) ==
    /\ signup[t].pc = "insert"
    /\ LET username == signup[t].username
           user_id == sqlite_sequence.users + 1
       IN  IF username_exists(username)
           THEN /\ last_register' = [username |-> username,
                                     status |-> "http_500", user_id |-> 0]
                /\ UNCHANGED << users, sqlite_sequence >>
           ELSE /\ users' = users \cup
                      { [id |-> user_id, username |-> username] }
                /\ sqlite_sequence' =
                      [sqlite_sequence EXCEPT !.users = user_id]
                /\ last_register' = [username |-> username,
                                     status |-> "ok", user_id |-> user_id]
    /\ signup' = [signup EXCEPT ![t] = NoSignup]
    /\ UNCHANGED << rag, nreq, foreign_keys, conversations, messages, turn,
                    last_deleted >>

\* ------------------------------------------------------------ the system

\* What one worker thread can do next.
Step(t) ==
    \/ index_files(t)
    \/ index_subject(t)
    \/ load_document(t)
    \/ get_ocr_reader(t)
    \/ easyocr_Reader(t)
    \/ ocr_run(t)
    \/ split(t)
    \/ delete(t)
    \/ insert(t)
    \/ chat(t)
    \/ get_stats(t)

Next == \E t \in Threads : Step(t)

\* The server with its thread pool: requests run concurrently.
Spec == Init /\ [][Next]_vars

NextSeq == Step(1)

\* One request at a time: each call returns before the next one starts.
SpecSeq == Init /\ [][NextSeq]_vars

NextRestart == Step(1) \/ restart

\* One request at a time, and the process may be restarted.
SpecRestart == Init /\ [][NextRestart]_vars

NextChatbot ==
    \/ \E k \in Tasks : chatbot_chat(k)
    \/ \E k \in Tasks : chat_save_user_message(k)
    \/ \E k \in Tasks : chat_reply(k)
    \/ create_conversation
    \/ delete_conversation
    \/ \E t \in Threads : register(t)
    \/ \E t \in Threads : create_user(t)

\* The RAG service starts with the large index on disk.
InitLarge == RAGService_init({TRUE}, LargePersistedIndex) /\ init_db({FALSE})

\* One request at a time, on an index of more than K chunks.
SpecLarge == InitLarge /\ [][NextSeq]_vars

\* The chatbot backend starts on a new database.
InitChatbot == RAGService_init({FALSE}, {}) /\ init_db(BOOLEAN)

\* The chatbot backend: chat handlers on the event loop, the other
\* handlers on worker threads.
SpecChatbot == InitChatbot /\ [][NextChatbot]_vars

\* ================================================================ claims

\* No index call for subject s is under way.
Quiet(s) == \A t \in Threads : pc[t] # "idle" => call[t].subject_id # s

\* C1: once an index_documents call for a subject S has returned "ok", and
\* until the next index call for S starts, the chunks of the collection
\* tagged S are exactly the chunks that call stored: no chunk of an earlier
\* index request for S remains next to them.  Stated for calls made one
\* after another.
C1_PartitionIsLastIndexed ==
    ( /\ last_index.called
      /\ last_index.result.status = "ok"
      /\ Quiet(last_index.subject_id) )
    => Partition(collection, last_index.subject_id) = last_index.stored

\* An index call with the arguments of the previous one returns "ok", the
\* previous one having returned "ok" too.
SecondRun ==
    /\ last_index.called /\ last_index.result.status = "ok"
    /\ last_index' # last_index
    /\ last_index'.called /\ last_index'.result.status = "ok"
    /\ last_index'.file_paths = last_index.file_paths
    /\ last_index'.subject_id = last_index.subject_id

\* C2: running index_documents(files, S) twice in a row with the same
\* arguments leaves the collection's count where the first run left it.
C2_ReindexKeepsCount ==
    [][SecondRun => last_index'.count = last_index.count]_vars

\* An Optional[str] that is None, "" or only whitespace.
Blank(opt) == \A s \in opt : strip(s) = <<>>

\* The subject ids of the chunks and of the sources a chat call returned.
ReturnedSubjects(q) ==
    { q.docs[i].subject_id : i \in DOMAIN q.docs }
      \cup { q.sources[i].subject : i \in DOMAIN q.sources }

\* C3 as claimed: whenever a chat request supplies a subject_id, whatever
\* string it is, every chunk retrieved and every source returned carries
\* that subject (up to surrounding whitespace).
C3_AnySubjectIsolation ==
    last_query.subject_id # {}
    => ReturnedSubjects(last_query)
         \subseteq { strip(s) : s \in last_query.subject_id }

\* C3 as amended: whenever a chat request supplies a subject_id that is not
\* blank, the search is filtered by the stripped subject and every chunk
\* retrieved and every source returned carries it; a request with no
\* subject_id, an empty one or one of whitespace only searches the whole
\* collection.
C3_NonBlankSubjectIsolation ==
    LET q == last_query
        wanted == { strip(s) : s \in q.subject_id }
    IN  /\ ~Blank(q.subject_id) =>
              /\ ReturnedSubjects(q) \subseteq wanted
              /\ q.searched # "no" => q.filter = wanted
        /\ (Blank(q.subject_id) /\ q.searched # "no") => q.filter = {}

\* A query filtered by a subject returned chunks while the collection held
\* chunks of another subject.
C3_Witness ==
    /\ ~Blank(last_query.subject_id)
    /\ last_query.docs # <<>>
    /\ \E c \in collection : c.subject_id \notin last_query.filter

\* The chunks a query filtered by s gets from a partition.
Seen(partition) == Range(similarity_search(partition, {}, K))

\* C4: a query filtered by subject S that runs while an index_documents call
\* for S is under way retrieves either from the partition as the last
\* completed index call left it or from the partition as the running call
\* will leave it, never from a partition in between.
C4_QuerySeesWholePartition ==
    [][ \A s \in Subjects :
          ( /\ last_query' # last_query
            /\ last_query'.searched = "returned"
            /\ last_query'.filter = {s}
            /\ ~Quiet(s) )
          => \/ Range(last_query'.docs) = Seen(last_ok[s])
             \/ \E w \in Threads :
                   /\ pc[w] # "idle" /\ call[w].subject_id = s
                   /\ Range(last_query'.docs) = Seen(Stored(chunks[w], next_id))
      ]_vars

\* C5: index_documents calls for one subject S take effect one after the
\* other: once the calls for S have returned, the last of them with "ok" and
\* its delete not having raised, the chunks tagged S are the chunks of that
\* one call, never those of two calls together.
C5_OneCallSurvives ==
    ( /\ last_index.called
      /\ last_index.result.status = "ok"
      /\ ~last_index.delete_raised
      /\ Quiet(last_index.subject_id) )
    => Partition(collection, last_index.subject_id) = last_index.stored

\* C6: the easyocr.Reader constructor runs at most once, and all callers of
\* get_ocr_reader hold the same instance.
C6_OcrInitOnce ==
    /\ reader_inits <= 1
    /\ \A t, u \in Threads :
          (reader[t] # 0 /\ reader[u] # 0) => reader[t] = reader[u]

\* The files of an index call that have an entry in its errors list.
ErrorFiles(ix) == { ix.result.errors[i].file : i \in DOMAIN ix.result.errors }

\* C7: for every index_documents call that returns a result: each file
\* whose loading fails has one entry in errors; every other file of the
\* batch is loaded and, when the status is "ok", has chunks among those
\* stored; and the status is "error" exactly when no document of the batch
\* was loaded.
C7_LoadFailuresAreIsolated ==
    LET ix == last_index
        fp == ix.file_paths
    IN  (ix.called /\ ix.result.status \in {"ok", "error"}) =>
          /\ \A i \in DOMAIN fp : LoadRaises(fp[i]) => fp[i] \in ErrorFiles(ix)
          /\ Len(ix.result.errors) = Cardinality(ErrorFiles(ix))
          /\ ErrorFiles(ix) \cap Range(ix.loaded) = {}
          /\ \A i \in DOMAIN fp :
                fp[i] \notin ErrorFiles(ix) =>
                  /\ fp[i] \in Range(ix.loaded)
                  /\ ix.result.status = "ok" =>
                        \E c \in ix.stored : c.source_file = fp[i]
          /\ ix.result.status = "error" <=> ix.loaded = <<>>

\* An index call returned "ok" for a batch of which one file failed to load.
C7_Witness ==
    /\ last_index.called
    /\ last_index.result.status = "ok"
    /\ last_index.result.errors # <<>>
    /\ last_index.stored # {}

\* C8: an index_documents call for S that does not return "ok" (the
\* embedding provider failed) leaves the chunks tagged S as the last
\* successful index call for S left them.
C8_EmbeddingErrorContained ==
    ( /\ last_index.called
      /\ last_index.result.status # "ok"
      /\ Quiet(last_index.subject_id) )
    => Partition(collection, last_index.subject_id)
         = last_ok[last_index.subject_id]

\* No index was loaded from disk and no index_documents call has returned
\* "ok" (such a call stores at least one chunk).
NoIndexYet == \A s \in Subjects : last_ok[s] = {}

\* C9: as long as no index exists, get_stats answers indexed = false with
\* count = 0, and a query answers with the "not indexed" reply, without
\* searching and without calling the LLM.
C9_EmptyIndexReplies ==
    NoIndexYet =>
      /\ last_stats.asked => (~last_stats.indexed /\ last_stats.count = 0)
      /\ last_query.status \notin {"none", "http_400"} =>
            /\ last_query.status = "error"
            /\ last_query.message # None
            /\ last_query.searched = "no"
            /\ last_query.docs = <<>>
            /\ last_query.llm_calls = 0

\* Both get_stats and a query were answered while no index existed.
C9_Witness ==
    /\ NoIndexYet
    /\ last_stats.asked
    /\ last_query.status = "error"

\* C10: whenever the search of a query returns no chunk, the reply has
\* status "ok", the fixed answer and an empty sources list, and the LLM was
\* not called.
C10_EmptyResultReply ==
    (last_query.searched = "returned" /\ last_query.docs = <<>>) =>
      /\ last_query.status = "ok"
      /\ last_query.answer
           = "No encontre informacion relevante en el material disponible."
      /\ last_query.sources = <<>>
      /\ ~last_query.sources_none
      /\ last_query.llm_calls = 0

\* A query filtered by a subject without data found nothing in a collection
\* that holds chunks.
C10_Witness ==
    /\ last_query.searched = "returned"
    /\ last_query.docs = <<>>
    /\ last_query.filter # {}
    /\ collection # {}

\* The position in docs of the first chunk of a file.
FirstOf(docs, file) ==
    CHOOSE i \in DOMAIN docs :
        /\ docs[i].source_file = file
        /\ \A j \in DOMAIN docs : docs[j].source_file = file => i <= j

\* C11: whenever query answers from a non-empty retrieval result, sources
\* has exactly one entry per distinct source_file of the retrieved chunks,
\* in the order in which the files first appear in the ranked result, each
\* with the subject_id of the first chunk of its file.
C11_SourcesDeduplicated ==
    LET q == last_query
        files == { q.docs[i].source_file : i \in DOMAIN q.docs }
    IN  (q.status = "ok" /\ q.docs # <<>>) =>
          /\ ~q.sources_none
          /\ Len(q.sources) = Cardinality(files)
          /\ { q.sources[i].file : i \in DOMAIN q.sources } = files
          /\ \A i, j \in DOMAIN q.sources :
                i < j => FirstOf(q.docs, q.sources[i].file)
                           < FirstOf(q.docs, q.sources[j].file)
          /\ \A i \in DOMAIN q.sources :
                q.sources[i].subject
                  = q.docs[FirstOf(q.docs, q.sources[i].file)].subject_id

\* A query answered from several chunks of one file and chunks of another
\* file, indexed under two subjects.
C11_Witness ==
    /\ last_query.status = "ok"
    /\ Len(last_query.sources) >= 2
    /\ Len(last_query.docs) > Len(last_query.sources)
    /\ \E i, j \in DOMAIN last_query.docs :
          last_query.docs[i].subject_id # last_query.docs[j].subject_id

\* Thread t is inside extract_text_with_ocr.
InOcrPath(t) == pc[t] \in {"ocr_check", "ocr_init", "ocr_run"}

\* The number of characters the loader extracts from a file, all pages
\* together, without the whitespace at both ends.
TrimmedNative(file_path) ==
    TextLen(strip_text(Concat(FileSystem[file_path].native)))

\* C12: each time load_document has loaded a file, it goes on to the OCR
\* path exactly when the file is a PDF whose natively extracted text,
\* trimmed, has fewer than 100 characters; a PDF with 100 or more and a
\* file that is no PDF are returned without OCR.
C12_OcrIffBelowThreshold ==
    [][ \A t \in Threads :
          ( /\ pc[t] = "load"
            /\ << pc[t], idx[t] >> # << pc'[t], idx'[t] >>
            /\ ~LoadRaises(call[t].file_paths[idx[t]]) )
          => LET f == call[t].file_paths[idx[t]] IN
             InOcrPath(t)' <=> ( /\ FileSystem[f].ext = ".pdf"
                                 /\ TrimmedNative(f) < 100 )
      ]_vars

\* A PDF of exactly 100 trimmed characters was indexed from its native
\* text while another call is on the OCR path with a PDF of 99 trimmed
\* characters (106 untrimmed).
C12_Witness ==
    /\ last_index.called
    /\ \E i \in DOMAIN last_index.loaded :
          /\ last_index.loaded[i] = "book.pdf"
          /\ TrimmedNative("book.pdf") = 100
    /\ \A c \in last_index.stored : ~c.ocr
    /\ \E t \in Threads :
          /\ InOcrPath(t)
          /\ TrimmedNative(call[t].file_paths[idx[t]]) = 99
          /\ TextLen(Concat(FileSystem[call[t].file_paths[idx[t]]].native)) >= 100

\* The documents thread t appends to all_documents in a step.
Added(t) ==
    SubSeq(all_documents'[t], Len(all_documents[t]) + 1, Len(all_documents'[t]))

\* C13: each time extract_text_with_ocr has run for a PDF below the
\* threshold, either it produced text and the file contributes the one OCR
\* document, or it failed or produced no text and then the file contributes
\* no document (none of its native pages) and gets an entry in errors.
C13_FailedOcrContributesNothing ==
    [][ \A t \in Threads :
          (pc[t] = "ocr_run" /\ pc'[t] # "ocr_run")
          => LET f == call[t].file_paths[idx[t]] IN
             \/ /\ Len(Added(t)) = 1
                /\ Added(t)[1].ocr
                /\ errors'[t] = errors[t]
             \/ /\ Added(t) = <<>>
                /\ Len(errors'[t]) = Len(errors[t]) + 1
                /\ errors'[t][Len(errors'[t])].file = f
      ]_vars

\* C14: every query that reached the search, whether the search or the LLM
\* call then raised or not, ends with a structured reply: a status "ok" or
\* "error" together with an answer or a message.
C14_QueryFailureIsStructured ==
    last_query.searched # "no" =>
      /\ last_query.status \in {"ok", "error"}
      /\ last_query.answer # None \/ last_query.message # None

\* C15: a chat request whose question is empty once trimmed is answered
\* with HTTP 400 and query is not called for it: nothing is passed on,
\* searched or asked of the LLM.  Any other question is passed to query
\* trimmed.
C15_EmptyQuestionRejected ==
    LET q == last_query IN
    q.status # "none" =>
      IF strip(q.question) = <<>>
      THEN /\ q.status = "http_400"
           /\ q.passed = {}
           /\ q.searched = "no"
           /\ q.docs = <<>>
           /\ q.llm_calls = 0
      ELSE /\ q.status # "http_400"
           /\ q.passed = { strip(q.question) }

\* A question of whitespace only was sent while the index held chunks.
C15_Witness ==
    /\ last_query.status = "http_400"
    /\ last_query.question # <<>>
    /\ vector_store # None
    /\ collection # {}

RECURSIVE SumOfPartitions(_, _)
\* The sizes of the partitions of the given subjects, added up.
SumOfPartitions(coll, subjects) ==
    IF subjects = {} THEN 0
    ELSE LET s == CHOOSE x \in subjects : TRUE IN
         Cardinality(Partition(coll, s)) + SumOfPartitions(coll, subjects \ {s})

\* An index exists: one was loaded from disk or an index_documents call
\* has returned "ok".
IndexExists == \E s \in Subjects : last_ok[s] # {}

\* C16: every get_stats call reports indexed = true exactly when an index
\* exists, and as count the number of chunks stored at that moment, all
\* subjects together.
C16_StatsCountsAllChunks ==
    [][ (nreq' # nreq /\ last_stats'.request = nreq') =>
          /\ last_stats'.indexed <=> IndexExists
          /\ last_stats'.count = SumOfPartitions(collection, Subjects)
      ]_vars

\* get_stats answered while the collection held chunks of two subjects.
C16_Witness ==
    /\ last_stats.asked
    /\ last_stats.request = nreq
    /\ last_stats.indexed
    /\ last_stats.count = Cardinality(collection)
    /\ \E c, d \in collection : c.subject_id # d.subject_id

\* No call is under way.
AllIdle == \A t \in Threads : pc[t] = "idle"

\* C17: after a restart that found an index attached and no call under
\* way, get_stats gives the reply it gave before and a query filtered by a
\* subject finds the index attached and retrieves the chunks it retrieved
\* before; a restart that finds no files in CHROMA_DIR starts the service
\* without index; and a service without index gets one only by an
\* index_documents call that returns "ok" (or by a restart that finds
\* files in CHROMA_DIR).
C17_RestartPreservesIndex ==
    [][ /\ (restarts' # restarts /\ AllIdle /\ vector_store # None) =>
            /\ RAGService_get_stats' = RAGService_get_stats
            /\ ~IndexMissing'
            /\ \A s \in Subjects :
                  similarity_search(collection', {s}, K)
                    = similarity_search(collection, {s}, K)
        /\ (restarts' # restarts /\ ~chroma_dir) =>
            /\ RAGService_get_stats' = [indexed |-> FALSE, count |-> 0]
            /\ IndexMissing'
        /\ (vector_store = None /\ vector_store' # None) =>
            \/ restarts' # restarts /\ chroma_dir
            \/ \E t \in Threads :
                  /\ pc[t] = "insert" /\ pc'[t] = "idle"
                  /\ last_index'.result.status = "ok"
      ]_vars

\* The process was restarted after an index_documents call that created
\* the index had returned "ok": the store is attached again and holds the
\* chunks of that call.
C17_Witness ==
    /\ restarts = 1
    /\ AllIdle
    /\ vector_store # None
    /\ last_index.called
    /\ last_index.result.status = "ok"
    /\ last_index.stored # {}
    /\ last_index.count = Cardinality(last_index.stored)
    /\ Partition(collection, last_index.subject_id) = last_index.stored

\* C18: in every "ok" result of index_documents, documents_processed is
\* the number of files of the request that were loaded, together with the
\* number of entries in errors it makes the number of file paths, and
\* chunks_created is the number of chunks the call stored.
C18_ResultCounts ==
    LET ix == last_index
        fp == ix.file_paths
    IN  (ix.called /\ ix.result.status = "ok") =>
          /\ ix.result.documents_processed
               = Cardinality({ i \in DOMAIN fp : fp[i] \in Range(ix.loaded) })
          /\ ix.result.documents_processed + Len(ix.result.errors) = Len(fp)
          /\ ix.result.chunks_created = Cardinality(ix.stored)

\* An "ok" result for two files, one of which was loaded and cut into two
\* chunks while the other failed.
C18_Witness ==
    /\ last_index.called
    /\ last_index.result.status = "ok"
    /\ Len(last_index.file_paths) = 2
    /\ last_index.result.documents_processed = 1
    /\ Len(last_index.result.errors) = 1
    /\ last_index.result.chunks_created = 2

\* C19: a delete_conversation that deletes conversation c while no chat
\* handler is under way leaves no message with conversation_id = c: every
\* message stored after it belongs to a conversation that exists, if every
\* message did before.
C19_DeleteRemovesMessages ==
    [][ ( /\ \A k \in Tasks : turn[k].pc = "idle"
          /\ \A m \in messages : m.conversation_id \in conversations )
        => \A c \in conversations \ conversations' :
              /\ \A m \in messages' : m.conversation_id # c
              /\ \A m \in messages' : m.conversation_id \in conversations'
      ]_vars

\* C20: there is at most one users row per username, and every register
\* request ends either with the new row (create_user returned its id) or
\* with 400 (create_user returned None), never with an exception.
C20_RegistrationUnique ==
    /\ \A u, v \in users : u.username = v.username => u = v
    /\ last_register.status \in {"none", "ok", "http_400"}
    /\ last_register.status = "ok" =>
          [id |-> last_register.user_id,
           username |-> last_register.username] \in users

\* The pages of a PDF without page p (all of them for p = 0).
PagesExcept(pages, p) ==
    [ i \in 1..(Len(pages) - (IF p \in DOMAIN pages THEN 1 ELSE 0)) |->
        IF p \in DOMAIN pages /\ i >= p THEN pages[i + 1] ELSE pages[i] ]

\* C21: each time extract_text_with_ocr has run for a PDF, the file
\* contributes the one OCR document holding the recognized text of all its
\* pages, or of all its pages but the one whose rendering or recognition
\* raised.
C21_OcrPageFailureIsolated ==
    [][ \A t \in Threads :
          (pc[t] = "ocr_run" /\ pc'[t] # "ocr_run")
          => LET pages == FileSystem[call[t].file_paths[idx[t]]].scanned IN
             \E p \in 0..Len(pages) :
                /\ Len(Added(t)) = 1
                /\ Added(t)[1].ocr
                /\ Added(t)[1].page_content = JoinPages(PagesExcept(pages, p))
      ]_vars

\* Chunk c is a piece of a page (or of the whole text) the loader extracted
\* from the file c.source_file names.
DerivedFromNative(c) ==
    LET f == FileSystem[c.source_file]
        i == IF f.ext = ".pdf" THEN c.page + 1 ELSE 1
    IN  /\ (f.ext # ".pdf") => c.page = -1
        /\ i \in DOMAIN f.native
        /\ c.part \in 1..SplitCount(f.native[i])

\* Chunk c is a piece of the text OCR recognized in the file c.source_file
\* names.
DerivedFromOcr(c) ==
    LET f == FileSystem[c.source_file] IN
    /\ f.ext = ".pdf"
    /\ c.page = -1
    /\ c.part \in 1..SplitCount(JoinPages(f.scanned))

\* C22: the chunks an index request inserts carry the subject_id of that
\* request and, as source_file, a path of the request whose file they are
\* a piece of; those that are a piece of OCR text carry ocr = TRUE, the
\* others ocr = FALSE; and no step changes a chunk that stays stored.
C22_MetadataPropagated ==
    [][ /\ (collection' \ collection # {}) =>
              \E t \in Threads :
                 /\ pc[t] = "insert" /\ pc'[t] = "idle"
                 /\ \A c \in collection' \ collection :
                       /\ c.subject_id = call[t].subject_id
                       /\ c.source_file \in Range(call[t].file_paths)
                       /\ c.source = c.source_file
                       /\ IF c.ocr THEN DerivedFromOcr(c)
                          ELSE DerivedFromNative(c)
                       /\ DerivedFromOcr(c) => c.ocr
        /\ \A c \in collection, d \in collection' : c.id = d.id => c = d
      ]_vars

\* The index holds a chunk of OCR text of scan.pdf and, stored by the last
\* index request for another subject, a chunk of native text.
C22_Witness ==
    /\ last_index.result.status = "ok"
    /\ \E c \in collection, d \in collection \cap last_index.stored :
          /\ c.ocr /\ c.source_file = "scan.pdf" /\ DerivedFromOcr(c)
          /\ ~d.ocr /\ DerivedFromNative(d)
          /\ d.subject_id # c.subject_id
          /\ d.subject_id = last_index.subject_id

\* C23: each time a query has retrieved n > 0 chunks, n is at most 8, the
\* chunks are the n best ranked of those the filter lets through, in ranked
\* order and each once, and the context handed to the LLM has exactly n
\* passages, the i-th being the i-th chunk under the label i.
C23_ContextIsRankedAndLabeled ==
    [][ (last_query' # last_query /\ last_query'.docs # <<>>) =>
          LET docs == last_query'.docs
              context == last_query'.context
              n == Len(docs)
              candidates == Candidates(collection, last_query'.filter)
          IN  /\ n <= 8
              /\ n = IF Cardinality(candidates) < 8
                     THEN Cardinality(candidates) ELSE 8
              /\ Range(docs) \subseteq candidates
              /\ \A i, j \in 1..n : i < j => RankedBefore(docs[i], docs[j])
              /\ \A c \in candidates \ Range(docs) :
                    \A i \in 1..n : RankedBefore(docs[i], c)
              /\ last_query'.llm_calls = 1
              /\ Len(context) = n
              /\ \A i \in 1..n : /\ context[i].label = i
                                 /\ context[i].passage = docs[i]
      ]_vars

\* A query found more than 8 chunks and its context holds the 8 best,
\* which are not in the order they were stored in.
C23_Witness ==
    /\ last_query.status = "ok"
    /\ Len(last_query.docs) = 8
    /\ Len(last_query.context) = 8
    /\ Cardinality(Candidates(collection, last_query.filter)) > 8
    /\ last_query.docs[1].id > last_query.docs[3].id

\* C24: a step in which a chat or get_stats request is answered, whatever
\* the answer, leaves the stored chunks, the attached store and the
\* directory as they were, so that every query finds after it what it would
\* have found before it.
C24_QueriesAreReadOnly ==
    [][ (last_query' # last_query \/ last_stats' # last_stats) =>
          /\ collection' = collection
          /\ vector_store' = vector_store
          /\ chroma_dir' = chroma_dir
          /\ next_id' = next_id
          /\ \A s \in Subjects :
                similarity_search(collection', {s}, K)
                  = similarity_search(collection, {s}, K)
          /\ \A t \in Threads :
                pc[t] # "idle" => /\ pc'[t] = pc[t]
                                  /\ chunks'[t] = chunks[t]
                                  /\ all_documents'[t] = all_documents[t]
      ]_vars

\* Two requests were answered, a chat with an answer from the index and a
\* get_stats, and the index is the one the process started with.
C24_Witness ==
    /\ nreq = 2
    /\ last_stats.asked /\ last_stats.indexed
    /\ last_query.status = "ok" /\ last_query.docs # <<>>
    /\ ~last_index.called
    /\ collection = PersistedIndex
    /\ last_stats.count = Cardinality(collection)

\* Every subject id a stored chunk can carry.
TaggedSubjects == Subjects \cup { c.subject_id : c \in collection \cup collection' }

\* C25: an index_documents call for subject S changes the chunks of no
\* other subject: whenever the set of chunks tagged T changes, the step is
\* the delete or the insert of a call for T; a call that ends, with status
\* "ok", with status "error" or with an exception, creating the index or
\* not, leaves the chunks of every subject but its own as they were when
\* its step began.
C25_OtherSubjectsUntouched ==
    [][ /\ \A T \in TaggedSubjects :
              Partition(collection', T) # Partition(collection, T) =>
                 \E t \in Threads :
                    /\ pc[t] \in {"delete", "insert"}
                    /\ pc'[t] # pc[t]
                    /\ call[t].subject_id = T
        /\ \A t \in Threads :
              (pc[t] # "idle" /\ pc'[t] # pc[t]) =>
                 \A T \in TaggedSubjects \ {call[t].subject_id} :
                    Partition(collection', T) = Partition(collection, T)
      ]_vars

\* An index call for subject A has replaced A's chunks and returned "ok"
\* while the index holds the chunks of subject B it started with.
C25_Witness ==
    /\ last_index.called
    /\ last_index.result.status = "ok"
    /\ last_index.subject_id = <<"A">>
    /\ ~last_index.delete_raised
    /\ last_index.stored # {}
    /\ Partition(collection, <<"A">>) = last_index.stored
    /\ Partition(collection, <<"B">>) = PersistedIndex
    /\ PersistedIndex # {}

=============================================================================
